---- MODULE Spec2Model ----
(***************************************************************************)
(* Model of langfuse_hook.py: the OpenCode -> Langfuse hook.  One process  *)
(* invocation handles one event: it loads the persisted state under the    *)
(* state lock, reconciles the event, possibly emits turns to the trace     *)
(* sink, and saves the state.                                              *)
(*                                                                         *)
(* Texts are sequences of tokens: a token is a run of non-whitespace       *)
(* characters ("hi"), a blank " " or a newline "\n".  Identifiers are      *)
(* strings without ":".  Instants are integers; the stored ISO form of an  *)
(* instant t is the record [iso |-> t].                                    *)
(***************************************************************************)
EXTENDS Integers, Sequences, FiniteSets, TLC

\* ------------------------------------------------------------------ bounds

\* Captured timestamps run over 1..MaxTime.
MaxTime == 2

\* The event history of a message keeps the last MaxEvents events
\* (MAX_MESSAGE_EVENTS_PER_MESSAGE as the environment configures it).
MaxEvents == 1

\* ------------------------------------------------------- program constants

MAX_CHARS == 20000

\* MAX_MESSAGE_EVENTS_PER_MESSAGE as configured by the environment of the
\* invocations; it is read once, when the module is loaded.
VARIABLE max_events

UnknownSession == "unknown-session"

Times == 1..MaxTime

\* -------------------------------------------------------------- pure helpers

\* f without the key k: dict.pop(k, None).
Pop(f, k) == [x \in (DOMAIN f) \ {k} |-> f[x]]

\* f with f[k] = v: dict[k] = v.
Put(f, k, v) == [x \in (DOMAIN f) \cup {k} |-> IF x = k THEN v ELSE f[x]]

\* dict.get(k, default).
Get(f, k, default) == IF k \in DOMAIN f THEN f[k] ELSE default

\* The empty dict.
EmptyMap == [x \in {} |-> {}]

\* a.update(b): the keys of b overwrite those of a.
Update(a, b) == [x \in (DOMAIN a) \cup (DOMAIN b) |-> IF x \in DOMAIN b THEN b[x] ELSE a[x]]

\* datetime.isoformat() and _parse_dt of a stored ISO string.
IsoFormat(t) == [iso |-> t]
ParseDt(v) == v.iso

\* An optional instant is the set {} (None) or {t}.
TheOne(S) == CHOOSE t \in S : TRUE

MsgKey(session_id, message_id) == session_id \o ":" \o message_id

\* sha256(session_id:message_id) cut to 24 hex digits: a function of the raw
\* key, taken to be free of collisions.
TurnKey(session_id, message_id) == "sha:" \o session_id \o ":" \o message_id

PartKey(key, part_id) == key \o ":" \o part_id

IsSpace(tok) == tok \in {" ", "\n"}

\* str.strip(): drop the whitespace at both ends.
RECURSIVE LStrip(_)
LStrip(text) ==
    IF text = <<>> THEN <<>>
    ELSE IF IsSpace(Head(text)) THEN LStrip(Tail(text))
    ELSE text

RECURSIVE RStrip(_)
RStrip(text) ==
    IF text = <<>> THEN <<>>
    ELSE IF IsSpace(text[Len(text)]) THEN RStrip(SubSeq(text, 1, Len(text) - 1))
    ELSE text

Strip(text) == RStrip(LStrip(text))

\* "\n".join(texts)
RECURSIVE JoinLines(_)
JoinLines(texts) ==
    IF texts = <<>> THEN <<>>
    ELSE IF Len(texts) = 1 THEN texts[1]
    ELSE texts[1] \o <<"\n">> \o JoinLines(Tail(texts))

\* len(value) in characters.
RECURSIVE CharLen(_)
CharLen(text) == IF text = <<>> THEN 0 ELSE Len(Head(text)) + CharLen(Tail(text))

\* The longest prefix of whole tokens with at most limit characters.
RECURSIVE TakeChars(_, _)
TakeChars(text, limit) ==
    IF text = <<>> \/ Len(Head(text)) > limit THEN <<>>
    ELSE <<Head(text)>> \o TakeChars(Tail(text), limit - Len(Head(text)))

Truncate(value, limit) ==
    IF CharLen(value) <= limit THEN value
    ELSE TakeChars(value, limit) \o <<"\n", "...[truncated]">>

\* The lexicographic order of the part ids of the model.
PartIdOrder == <<"p1", "p2", "p3", "p4", "p5">>
IdRank(id) == CHOOSE i \in 1..Len(PartIdOrder) : PartIdOrder[i] = id

\* Row a sorts before row b by (timestamp, id).
RowBefore(a, b) == a.ts < b.ts \/ (a.ts = b.ts /\ IdRank(a.id) < IdRank(b.id))

\* rows.sort(key=(timestamp, id)) of a set of rows with distinct ids.
RECURSIVE SortRows(_)
SortRows(rows) ==
    IF rows = {} THEN <<>>
    ELSE LET first == CHOOSE r \in rows : \A o \in rows \ {r} : RowBefore(r, o)
         IN  <<first>> \o SortRows(rows \ {first})

\* The instant of a part: its time.start, or now when it has none.
PartTs(p, now) == IF p.start = {} THEN now ELSE TheOne(p.start)

\* _extract_text_from_parts: the non-empty text parts, ordered, joined by newlines.
ExtractTextFromParts(parts_map, now) ==
    LET rows == {[ts |-> PartTs(parts_map[i], now), id |-> parts_map[i].id,
                  text |-> parts_map[i].text] :
                    i \in {j \in DOMAIN parts_map :
                             parts_map[j].type = "text" /\ parts_map[j].text # <<>>}}
        sorted == SortRows(rows)
    IN  Strip(JoinLines([k \in 1..Len(sorted) |-> sorted[k].text]))

\* Statuses that take a running tool call for a finished one.
AnyStatus == {"completed", "error", "running"}

\* Line 415: the statuses of a tool call that has ended.
TerminalStatus == {"completed", "error"}

\* _build_turn_details: (output_text, reasoning_rows, tools).
BuildTurnDetails(parts_map, now) ==
    LET reasoning_rows ==
            {[ts |-> PartTs(parts_map[i], now), id |-> parts_map[i].id,
              text |-> parts_map[i].text] :
                i \in {j \in DOMAIN parts_map :
                         parts_map[j].type = "reasoning" /\ parts_map[j].text # <<>>}}
        tools ==
            {[ts |-> PartTs(parts_map[i], now), id |-> parts_map[i].id,
              status |-> parts_map[i].status] :
                i \in {j \in DOMAIN parts_map :
                         parts_map[j].type = "tool" /\ parts_map[j].status \in TerminalStatus}}
    IN  [output_text |-> ExtractTextFromParts(parts_map, now),
         reasoning   |-> SortRows(reasoning_rows),
         tools       |-> SortRows(tools)]

\* ------------------------------------------------------------ persisted state

\* _load_state of a missing file: every top-level map present and empty.
\* assistant_order is the key order of the assistant_parts dict (insertion order,
\* kept by the JSON round trip), which the lifecycle flush iterates in.
EmptyState ==
    [messages              |-> EmptyMap,
     message_events        |-> EmptyMap,
     user_parts            |-> EmptyMap,
     assistant_parts       |-> EmptyMap,
     assistant_order       |-> <<>>,
     assistant_finish_seen |-> EmptyMap,
     pending_parts         |-> EmptyMap,
     message_last_seen     |-> EmptyMap,
     part_last_seen        |-> EmptyMap,
     emitted               |-> EmptyMap,
     session_lifecycle     |-> EmptyMap]

\* seq without the element k.
RECURSIVE SeqRemove(_, _)
SeqRemove(seq, k) ==
    IF seq = <<>> THEN <<>>
    ELSE IF Head(seq) = k THEN SeqRemove(Tail(seq), k)
    ELSE <<Head(seq)>> \o SeqRemove(Tail(seq), k)

\* state["assistant_parts"].pop(key, None)
PopAssistantParts(s, key) ==
    [s EXCEPT !.assistant_parts = Pop(@, key), !.assistant_order = SeqRemove(@, key)]

\* state["assistant_parts"].setdefault(key, {}) followed by writing parts into it.
PutAssistantParts(s, key, parts) ==
    [s EXCEPT !.assistant_parts = Put(@, key, parts),
              !.assistant_order = IF key \in DOMAIN s.assistant_parts THEN @ ELSE Append(@, key)]

\* A staleness check that lets every event through.
NeverOlder(last_seen, key, event_dt) == FALSE

\* _is_older_event: a key never seen is never older.
IsOlderEvent(last_seen, key, event_dt) ==
    IF key \notin DOMAIN last_seen THEN FALSE
    ELSE event_dt < ParseDt(last_seen[key])

\* _event_captured_at: captured_at, else the event's own timestamp, else now.
EventCapturedAt(ev, now) ==
    IF ev.captured_at # {} THEN TheOne(ev.captured_at)
    ELSE IF ev.timestamp # {} THEN TheOne(ev.timestamp)
    ELSE now

\* list[start:] of Python, for any integer start.
PySliceFrom(list, start) ==
    LET from == IF start < 0
                THEN (IF Len(list) + start < 0 THEN 0 ELSE Len(list) + start)
                ELSE (IF start > Len(list) THEN Len(list) ELSE start)
    IN  SubSeq(list, from + 1, Len(list))

\* _append_message_event: append, then keep the last MAX entries.
AppendMessageEvent(s, key, info, now) ==
    LET list == Append(Get(s.message_events, key, <<>>),
                       [captured_at |-> IsoFormat(now), info |-> info])
        kept == IF Len(list) > max_events
                THEN PySliceFrom(list, 0 - max_events)
                ELSE list
    IN  [s EXCEPT !.message_events = Put(@, key, kept)]

\* ------------------------------------------------------------- emission gate

\* What a handler returns: the state and the turn sink calls it made.
Result(s, calls) == [st |-> s, calls |-> calls]

\* The result r of a step that follows sink calls already made.
After(calls, r) == Result(r.st, calls \o r.calls)

\* _emit_turn_trace: the turn payload handed to the sink client.  ok tells
\* whether the client call succeeded; a failure is caught and logged inside
\* _emit_turn_trace and is not visible to the caller.
TurnPayload(session_id, info, input_text, details, ok) ==
    [session_id        |-> session_id,
     message_id        |-> IF info.id = "" THEN "unknown" ELSE info.id,
     parent_message_id |-> info.parentID,
     input             |-> Truncate(input_text, MAX_CHARS),
     output            |-> Truncate(details.output_text, MAX_CHARS),
     reasoning         |-> [k \in 1..Len(details.reasoning) |-> details.reasoning[k].text],
     tools             |-> [k \in 1..Len(details.tools) |->
                              [id |-> details.tools[k].id, status |-> details.tools[k].status,
                               ts |-> details.tools[k].ts]],
     ok                |-> ok]

\* A gate that takes only a terminal tool call for a ready turn.
ReadyOnToolCall(details) == details.tools # <<>>

\* A gate that lets every assembled turn through.
ReadyUnconditionally(details) == TRUE

\* The turn has output text, reasoning or a terminal tool call.
TurnReady(details) ==
    details.output_text # <<>> \/ details.reasoning # <<>> \/ details.tools # <<>>

\* An emission that leaves no trace in the state.
UnmarkedEmission(s, turn_id, assistant_key, user_key, now) == s

\* An emission that purges the buffers of the assistant message and sets no marker.
PurgedUnmarked(s, turn_id, assistant_key, user_key, now) ==
    [PopAssistantParts(s, assistant_key) EXCEPT
        !.message_events = Pop(@, assistant_key),
        !.assistant_finish_seen = Pop(@, assistant_key)]

\* An emission that sets the marker and purges the buffers of the assistant
\* message only, leaving those of the linked user message.
MarkedAssistantOnly(s, turn_id, assistant_key, user_key, now) ==
    [PopAssistantParts(s, assistant_key) EXCEPT
        !.emitted = Put(@, turn_id, IsoFormat(now)),
        !.message_events = Pop(@, assistant_key),
        !.assistant_finish_seen = Pop(@, assistant_key)]

\* An emission that sets the marker and leaves every buffer in place.
MarkedOnly(s, turn_id, assistant_key, user_key, now) ==
    [s EXCEPT !.emitted = Put(@, turn_id, IsoFormat(now))]

\* The state after the sink call: the marker is set and the buffers are purged.
MarkEmitted(s, turn_id, assistant_key, user_key, now) ==
    LET s1 == [PopAssistantParts(s, assistant_key) EXCEPT
                  !.emitted = Put(@, turn_id, IsoFormat(now)),
                  !.message_events = Pop(@, assistant_key),
                  !.assistant_finish_seen = Pop(@, assistant_key)]
    IN  IF user_key # ""
        THEN [s1 EXCEPT !.user_parts = Pop(@, user_key), !.message_events = Pop(@, user_key)]
        ELSE s1

\* _maybe_emit_assistant_turn
MaybeEmitAssistantTurn(s, session_id, message_id, info, now, ok) ==
    LET turn_id       == TurnKey(session_id, message_id)
        parent_id     == info.parentID
        user_key      == IF parent_id # "" THEN MsgKey(session_id, parent_id) ELSE ""
        assistant_key == MsgKey(session_id, message_id)
        user_parts    == Get(s.user_parts, user_key, EmptyMap)
        asst_parts    == Get(s.assistant_parts, assistant_key, EmptyMap)
        input_text    == ExtractTextFromParts(user_parts, now)
        details       == BuildTurnDetails(asst_parts, now)
    IN  IF turn_id \in DOMAIN s.emitted THEN Result(s, <<>>)
        ELSE IF ~TurnReady(details) THEN Result(s, <<>>)
        ELSE Result(MarkEmitted(s, turn_id, assistant_key, user_key, now),
                    <<TurnPayload(session_id, info, input_text, details, ok)>>)

\* A purge that drops the emitted marker of the message with its buffers.
ForgetTurn(s, session_id, message_id) ==
    [PopAssistantParts(s, MsgKey(session_id, message_id)) EXCEPT
        !.emitted = Pop(@, TurnKey(session_id, message_id)),
        !.message_events = Pop(@, MsgKey(session_id, message_id)),
        !.assistant_finish_seen = Pop(@, MsgKey(session_id, message_id))]

\* _cleanup_emitted_message_buffers
CleanupEmittedMessageBuffers(s, session_id, message_id) ==
    LET key == MsgKey(session_id, message_id)
    IN  [PopAssistantParts(s, key) EXCEPT
            !.message_events = Pop(@, key),
            !.assistant_finish_seen = Pop(@, key)]

\* ------------------------------------------------------- reconciliation engine

\* A reconciliation that leaves the pending parts where they are.
KeepPending(s, key, role) == s

\* Lines 733-740: move the pending text parts of key into the bucket of the role
\* now known; with no known role they stay pending.
ReconcilePending(s, key, role) ==
    LET pending == Get(s.pending_parts, key, EmptyMap)
        s1      == [s EXCEPT !.pending_parts = Pop(@, key)]
    IN  IF pending = EmptyMap THEN s1
        ELSE IF role = "assistant"
             THEN PutAssistantParts(s1, key, Update(Get(s1.assistant_parts, key, EmptyMap), pending))
        ELSE IF role = "user"
             THEN [s1 EXCEPT !.user_parts = Put(@, key, Update(Get(s1.user_parts, key, EmptyMap), pending))]
        ELSE [s1 EXCEPT !.pending_parts = Put(@, key, pending)]

\* _handle_message_updated
HandleMessageUpdated(s, ev, session_id, now, ok) ==
    LET info       == ev.info
        message_id == info.id
        key        == MsgKey(session_id, message_id)
        event_dt   == EventCapturedAt(ev, now)
        role       == info.role
        s1         == [s EXCEPT !.message_last_seen = Put(@, key, IsoFormat(event_dt)),
                                !.messages = Put(@, key, info)]
        s2         == ReconcilePending(AppendMessageEvent(s1, key, info, now), key, role)
        s3         == IF info.completed
                      THEN [s2 EXCEPT !.assistant_finish_seen = Put(@, key, IsoFormat(now))]
                      ELSE s2
    IN  IF message_id = "" THEN Result(s, <<>>)
        ELSE IF IsOlderEvent(s.message_last_seen, key, event_dt) THEN Result(s, <<>>)
        ELSE IF role = "assistant" /\ TurnKey(session_id, message_id) \in DOMAIN s1.emitted
             THEN Result(CleanupEmittedMessageBuffers(s1, session_id, message_id), <<>>)
        ELSE IF role # "assistant" THEN Result(s2, <<>>)
        ELSE IF info.completed
             THEN MaybeEmitAssistantTurn(s3, session_id, message_id, info, now, ok)
        ELSE Result(s3, <<>>)

\* The part types that only assistant messages carry (line 779).
AssistantPartTypes ==
    {"reasoning", "tool", "step-start", "step-finish", "patch", "agent", "retry", "compaction"}

\* The record handed to the emission gate when no message record is stored (line 797).
FallbackInfo(message_id) ==
    [id |-> message_id, role |-> "assistant", parentID |-> "", completed |-> FALSE]

NoInfo == [id |-> "", role |-> "", parentID |-> "", completed |-> FALSE]

\* _handle_message_part_updated
HandleMessagePartUpdated(s, ev, session_id, now, ok) ==
    LET part       == ev.part
        message_id == part.messageID
        part_id    == part.id
        key        == MsgKey(session_id, message_id)
        event_dt   == EventCapturedAt(ev, now)
        part_key   == PartKey(key, part_id)
        s1         == [s EXCEPT !.part_last_seen = Put(@, part_key, IsoFormat(event_dt))]
        has_msg    == key \in DOMAIN s1.messages
        msg        == Get(s1.messages, key, NoInfo)
        known_role == msg.role
        role       == IF known_role = "" /\ part.type \in AssistantPartTypes
                      THEN "assistant" ELSE known_role
        s_pending  == [s1 EXCEPT !.pending_parts =
                          Put(@, key, Put(Get(s1.pending_parts, key, EmptyMap), part_id, part))]
        s_user     == [s1 EXCEPT !.user_parts =
                          Put(@, key, Put(Get(s1.user_parts, key, EmptyMap), part_id, part))]
        s_asst     == PutAssistantParts(s1, key,
                          Put(Get(s1.assistant_parts, key, EmptyMap), part_id, part))
        s_finish   == IF part.type = "step-finish"
                      THEN [s_asst EXCEPT !.assistant_finish_seen = Put(@, key, IsoFormat(now))]
                      ELSE s_asst
        completed   == has_msg /\ msg.completed
        finish_seen == key \in DOMAIN s_finish.assistant_finish_seen
    IN  IF message_id = "" \/ part_id = "" THEN Result(s, <<>>)
        ELSE IF IsOlderEvent(s.part_last_seen, part_key, event_dt) THEN Result(s, <<>>)
        ELSE IF TurnKey(session_id, message_id) \in DOMAIN s1.emitted
             THEN Result(CleanupEmittedMessageBuffers(s1, session_id, message_id), <<>>)
        ELSE IF known_role = "" /\ part.type \notin AssistantPartTypes /\ part.type = "text"
             THEN Result(s_pending, <<>>)
        ELSE IF role # "assistant" THEN Result(s_user, <<>>)
        ELSE IF completed \/ finish_seen
             THEN MaybeEmitAssistantTurn(s_finish, session_id, message_id,
                                         IF has_msg THEN msg ELSE FallbackInfo(message_id), now, ok)
        ELSE Result(s_finish, <<>>)

\* ----------------------------------------------------- lifecycle flush trigger

\* The identifiers of the model.
SessionIds == {"s1"}
MessageIds == {"u1", "a1", "a2", "m1"}

\* key[len(prefix):] when key.startswith(session_id + ":"), else "" (lines 678-681).
KeyMessageId(key, session_id) ==
    IF \E m \in MessageIds : key = MsgKey(session_id, m)
    THEN CHOOSE m \in MessageIds : key = MsgKey(session_id, m)
    ELSE ""

\* The record synthesized when no message record is stored (line 696).
SynthesizedInfo(message_id) ==
    [id |-> message_id, role |-> "assistant", parentID |-> "", completed |-> FALSE]

\* One iteration of the loop of _flush_pending_assistant_turns, over the keys that
\* assistant_parts had when the flush began.
RECURSIVE FlushKeys(_, _, _, _, _, _)
FlushKeys(s, keys, session_id, now, ok, calls) ==
    IF keys = <<>> THEN Result(s, calls)
    ELSE LET key        == Head(keys)
             message_id == KeyMessageId(key, session_id)
             parts_map  == Get(s.assistant_parts, key, EmptyMap)
             info       == IF key \in DOMAIN s.messages THEN s.messages[key]
                           ELSE SynthesizedInfo(message_id)
             r          == IF message_id = "" THEN Result(s, <<>>)
                           ELSE IF TurnKey(session_id, message_id) \in DOMAIN s.emitted
                           THEN Result(CleanupEmittedMessageBuffers(s, session_id, message_id), <<>>)
                           ELSE IF parts_map = EmptyMap THEN Result(s, <<>>)
                           ELSE MaybeEmitAssistantTurn(s, session_id, message_id, info, now, ok)
         IN  After(calls, FlushKeys(r.st, Tail(keys), session_id, now, ok, r.calls))

\* A flush that passes over the messages with no stored record.
FlushRecordedOnly(s, session_id, now, ok) ==
    LET Recorded(key) == key \in DOMAIN s.messages
    IN  FlushKeys(s, SelectSeq(s.assistant_order, Recorded), session_id, now, ok, <<>>)

\* _flush_pending_assistant_turns
FlushPendingAssistantTurns(s, session_id, now, ok) ==
    IF session_id = "" \/ session_id = UnknownSession THEN Result(s, <<>>)
    ELSE FlushKeys(s, s.assistant_order, session_id, now, ok, <<>>)

\* ------------------------------------------------------------------- main

TerminalEvents == {"session.idle", "session.error", "session.compacted"}
LifecycleEvents == {"session.created"} \cup TerminalEvents

\* _session_id: the first identifying field found, else the sentinel.  ev.session
\* stands for the sessionID fields of the payload; properties.info.id is the next
\* candidate.
SessionId(ev) ==
    IF ev.session # {} THEN TheOne(ev.session)
    ELSE IF ev.info.id # "" THEN ev.info.id
    ELSE UnknownSession

\* Lines 826-829: after a part event, flush when the session's last recorded
\* lifecycle event is terminal.
PostPartFlush(r, session_id, now, ok) ==
    LET last_event == IF session_id \in DOMAIN r.st.session_lifecycle
                      THEN r.st.session_lifecycle[session_id].event ELSE ""
    IN  IF last_event \in TerminalEvents
        THEN After(r.calls, FlushPendingAssistantTurns(r.st, session_id, now, ok))
        ELSE r

\* Lines 834-839: record the lifecycle event unless an event recorded for the
\* session is newer.
RecordLifecycle(s, ev, session_id, now) ==
    LET event_dt == EventCapturedAt(ev, now)
        fresh    == \/ session_id \notin DOMAIN s.session_lifecycle
                    \/ event_dt >= ParseDt(s.session_lifecycle[session_id].at)
    IN  IF fresh
        THEN [s EXCEPT !.session_lifecycle =
                 Put(@, session_id, [event |-> ev.type, at |-> IsoFormat(event_dt)])]
        ELSE s

\* Lines 822-832: the handler of the event, with the flush after a part event.
Dispatch(s, ev, session_id, now, ok) ==
    IF ev.type = "message.updated"
    THEN HandleMessageUpdated(s, ev, session_id, now, ok)
    ELSE IF ev.type = "message.part.updated"
    THEN PostPartFlush(HandleMessagePartUpdated(s, ev, session_id, now, ok),
                       session_id, now, ok)
    ELSE Result(s, <<>>)

\* Lines 834-842, after the handler returned r: record a lifecycle event, and
\* flush on a terminal one.
Lifecycle(r, ev, session_id, now, ok) ==
    IF ev.type \in TerminalEvents
    THEN After(r.calls, FlushPendingAssistantTurns(RecordLifecycle(r.st, ev, session_id, now),
                                                  session_id, now, ok))
    ELSE IF ev.type \in LifecycleEvents
    THEN Result(RecordLifecycle(r.st, ev, session_id, now), r.calls)
    ELSE r

\* The body of main under the state lock, from the loaded state s to the state
\* it saves, with the turn sink calls made in between.
Main(s, ev, now, ok) ==
    Lifecycle(Dispatch(s, ev, SessionId(ev), now, ok), ev, SessionId(ev), now, ok)

\* ------------------------------------------------------------------ events

NoPart == [id |-> "", messageID |-> "", type |-> "", text |-> <<>>, status |-> "", start |-> {}]

Info(id, role, parentID, completed) ==
    [id |-> id, role |-> role, parentID |-> parentID, completed |-> completed]

TextPart(id, messageID, text) ==
    [id |-> id, messageID |-> messageID, type |-> "text", text |-> text, status |-> "", start |-> {}]

ToolPart(id, messageID, status) ==
    [id |-> id, messageID |-> messageID, type |-> "tool", text |-> <<>>, status |-> status, start |-> {}]

ReasoningPart(id, messageID, text) ==
    [id |-> id, messageID |-> messageID, type |-> "reasoning", text |-> text, status |-> "", start |-> {}]

MarkerPart(id, messageID, type) ==
    [id |-> id, messageID |-> messageID, type |-> type, text |-> <<>>, status |-> "", start |-> {}]

\* captured_at of a payload: an instant, or absent.
CapturedOptions == {{}} \cup {{t} : t \in Times}

\* captured_at as the plugin forwards it.
Stamps == {{t} : t \in Times}

Event(type, session, captured_at, timestamp, info, part) ==
    [type |-> type, session |-> session, captured_at |-> captured_at,
     timestamp |-> timestamp, info |-> info, part |-> part]

MessageEvent(session, captured_at, info) ==
    Event("message.updated", {session}, captured_at, {}, info, NoPart)

PartEvent(session, captured_at, part) ==
    Event("message.part.updated", {session}, captured_at, {}, NoInfo, part)

LifecycleEvent(type, session, captured_at) ==
    Event(type, {session}, captured_at, {}, NoInfo, NoPart)

\* ------------------------------------------------------------------- machine

VARIABLES
    st,     \* the persisted state file
    sent,   \* turn id -> number of turn payloads handed to the trace sink so far
    calls,  \* the turn payloads handed to the sink by the last invocation
    last,   \* the last invocation: its event name, session id, message id,
            \* info.role and part, and whether its handler rejected the event
            \* as older than last seen
    clock,  \* the wall clock (datetime.now): no event is captured after it
    script, \* the events a scripted run feeds, in order
    pos,    \* the number of events of the script fed so far
    first,  \* a replay: the state file as the first pass left it
    locking, \* fcntl is importable and flock on the lock file works
    lock,   \* the process holding the exclusive lock on the lock file, or NoHolder
    procs,  \* concurrent invocations: process -> its event, position and loaded state
    env,    \* the environment variables of the invocations
    disk,   \* the files of the state directory, at the grain of single file
            \* operations: path -> content
    run     \* an invocation followed step by step: its position, input, loaded
            \* state and exit status

vars == <<st, sent, calls, last, clock, script, pos, first, locking, lock, procs, max_events,
          env, disk, run>>

feedVars == <<script, pos, first>>

fleetVars == <<locking, lock, procs>>

hostVars == <<env, disk, run>>

NoHolder == 0

NoLast ==
    [event_name |-> "", session_id |-> "", message_id |-> "", role |-> "", part |-> NoPart,
     rejected |-> FALSE]

\* The message id an event refers to ("" for a session event).
EventMessageId(e) ==
    IF e.type = "message.updated" THEN e.info.id
    ELSE IF e.type = "message.part.updated" THEN e.part.messageID
    ELSE ""

\* The handler of e returns at its older-event check (lines 718 and 764).
Rejected(s, e, now) ==
    LET key      == MsgKey(SessionId(e), EventMessageId(e))
        event_dt == EventCapturedAt(e, now)
    IN  IF e.type = "message.updated"
        THEN e.info.id # "" /\ IsOlderEvent(s.message_last_seen, key, event_dt)
        ELSE IF e.type = "message.part.updated"
        THEN /\ e.part.messageID # "" /\ e.part.id # ""
             /\ IsOlderEvent(s.part_last_seen, PartKey(key, e.part.id), event_dt)
        ELSE FALSE

\* sent after the sink has received the payloads of cs.
RECURSIVE Count(_, _)
Count(counts, cs) ==
    IF cs = <<>> THEN counts
    ELSE LET t == TurnKey(Head(cs).session_id, Head(cs).message_id)
         IN  Count(Put(counts, t, Get(counts, t, 0) + 1), Tail(cs))

InitWith(max) ==
    /\ st = EmptyState
    /\ sent = EmptyMap
    /\ calls = <<>>
    /\ last = NoLast
    /\ clock = MaxTime
    /\ max_events = max

\* No script is fed.
NoFeed == script = <<>> /\ pos = 0 /\ first = EmptyState

\* The invocations run one after another: no two processes overlap.
NoFleet == locking = TRUE /\ lock = NoHolder /\ procs = <<>>

\* The invocations are taken whole: tracing is enabled, the input is an event,
\* the state file holds st, and no invocation stops half way.
NoHost == env = <<>> /\ disk = <<>> /\ run = <<>>

\* The outcomes of the sink calls of an invocation that makes the calls r.calls
\* when they succeed: a call succeeds or raises.
SinkOutcomes(r) == IF r.calls = <<>> THEN {TRUE} ELSE BOOLEAN

\* The invocation for e returned r: the state file is saved, the sink has
\* received the calls.
Returned(e, r, rejected) ==
    /\ st' = r.st
    /\ sent' = Count(sent, r.calls)
    /\ calls' = r.calls
    /\ last' = [event_name |-> e.type, session_id |-> SessionId(e),
                message_id |-> EventMessageId(e), role |-> e.info.role,
                part |-> e.part, rejected |-> rejected]

\* One invocation of main for the event e: load, handle, save.  It runs at the
\* instant the wall clock shows.
Invoke(e) ==
    /\ \E ok \in SinkOutcomes(Main(st, e, clock, TRUE)) :
          Returned(e, Main(st, e, clock, ok), Rejected(st, e, clock))
    /\ UNCHANGED <<clock, max_events, fleetVars, hostVars>>

\* ------------------------------------------------ Spec: one turn of one session

\* properties.info of the message.updated events.
MessageInfos ==
    {Info("u1", "user", "", FALSE)} \cup {Info("a1", "assistant", "u1", c) : c \in BOOLEAN}

\* properties.part of the message.part.updated events.
PartUniverse ==
    {TextPart("p1", "u1", <<"hi">>), TextPart("p2", "a1", <<"hello">>)}

SessionEventTypes == {"session.idle"}

Init == InitWith(MaxEvents) /\ NoFeed /\ NoFleet /\ NoHost

MessageUpdated ==
    \E info \in MessageInfos, s \in SessionIds, c \in Stamps :
        Invoke(MessageEvent(s, c, info)) /\ UNCHANGED feedVars

MessagePartUpdated ==
    \E part \in PartUniverse, s \in SessionIds, c \in Stamps :
        Invoke(PartEvent(s, c, part)) /\ UNCHANGED feedVars

SessionEvent ==
    \E type \in SessionEventTypes, s \in SessionIds, c \in Stamps :
        Invoke(LifecycleEvent(type, s, c)) /\ UNCHANGED feedVars

Next == MessageUpdated \/ MessagePartUpdated \/ SessionEvent

Spec == Init /\ [][Next]_vars

\* ------------------------------------------------------------ claims of Spec

A1Turn == TurnKey("s1", "a1")
A1Key == MsgKey("s1", "a1")
U1Key == MsgKey("s1", "u1")

\* C1: over any sequence of message, part and session events, duplicated and
\* reordered ones included, the sink receives at most one turn payload for any
\* (session id, assistant message id) pair.
C1_AtMostOnePayloadPerTurn == \A t \in DOMAIN sent : sent[t] <= 1

\* A completed message.updated of a1 was accepted after the turn of a1 had been
\* handed to the sink, and made no further sink call.
C1_Witness ==
    /\ Get(sent, A1Turn, 0) = 1
    /\ calls = <<>>
    /\ last.event_name = "message.updated" /\ last.message_id = "a1" /\ ~last.rejected
    /\ A1Key \in DOMAIN st.messages /\ st.messages[A1Key].completed

\* C2: when the sink call made for a turn fails, no emitted marker is recorded
\* for the turn and its buffered parts are retained for a later attempt.
C2_FailedCallWithholdsMarker ==
    \A i \in 1..Len(calls) :
        ~calls[i].ok =>
            /\ TurnKey(calls[i].session_id, calls[i].message_id) \notin DOMAIN st.emitted
            /\ MsgKey(calls[i].session_id, calls[i].message_id) \in DOMAIN st.assistant_parts

\* C6: an invocation whose event is rejected as older than the last-seen value of
\* its key leaves every map of the state unchanged and makes no turn sink call.
C6_RejectedEventChangesNothing ==
    [][last'.rejected => (st' = st /\ calls' = <<>>)]_vars

\* C12: in the state an invocation that emitted a turn leaves, assistant_parts,
\* message_events and assistant_finish_seen have no entry for the key of the
\* assistant message, and user_parts and message_events have none for the key of
\* the user message its parent id names.
C12_EmissionPurgesBuffers ==
    \A i \in 1..Len(calls) :
        LET assistant_key == MsgKey(calls[i].session_id, calls[i].message_id)
            user_key      == MsgKey(calls[i].session_id, calls[i].parent_message_id)
        IN  /\ assistant_key \notin DOMAIN st.assistant_parts
            /\ assistant_key \notin DOMAIN st.message_events
            /\ assistant_key \notin DOMAIN st.assistant_finish_seen
            /\ calls[i].parent_message_id # "" =>
                  /\ user_key \notin DOMAIN st.user_parts
                  /\ user_key \notin DOMAIN st.message_events

\* The turn of a1 has just been emitted with the buffered text of its parent u1
\* as input, and the message.updated of u1 had been recorded before.
C12_Witness ==
    /\ Len(calls) = 1 /\ calls[1].message_id = "a1" /\ calls[1].parent_message_id = "u1"
    /\ calls[1].input = <<"hi">>
    /\ U1Key \in DOMAIN st.messages
    /\ A1Turn \in DOMAIN st.emitted

\* The message and part events of Spec.
KeyedEvents ==
    {MessageEvent(s, c, info) : s \in SessionIds, c \in Stamps, info \in MessageInfos}
    \cup {PartEvent(s, c, part) : s \in SessionIds, c \in Stamps, part \in PartUniverse}

\* a and b are events of one message key, or of one (message, part) key.
SameKey(a, b) ==
    /\ a.type = b.type
    /\ SessionId(a) = SessionId(b)
    /\ EventMessageId(a) = EventMessageId(b)
    /\ a.part.id = b.part.id

\* The state file and the set of turn payloads after one invocation for a and
\* then one for b, from the state s.
InOrder(s, a, b) ==
    LET ra == Main(s, a, clock, TRUE)
        rb == Main(ra.st, b, clock, TRUE)
    IN  [st    |-> rb.st,
         calls |-> {ra.calls[i] : i \in 1..Len(ra.calls)} \cup {rb.calls[i] : i \in 1..Len(rb.calls)}]

\* C7: for two events of one key with different captured timestamps, the final
\* state and the set of turn sink calls are the same whichever is applied first.
C7_ArrivalOrderIsImmaterial ==
    \A a \in KeyedEvents, b \in KeyedEvents :
        (SameKey(a, b) /\ a.captured_at # b.captured_at)
            => InOrder(st, a, b) = InOrder(st, b, a)

\* ------------------------------ scripted runs: a pass of events is fed, then re-fed

\* The script is a pass followed by the same pass: PassLen is the length of the pass.
PassLen == Len(script) \div 2

\* The pass ps followed by its replay.
Twice(ps) == ps \o ps

\* The next event of the script is handled by one invocation; first keeps the
\* state file as the first pass left it.
Deliver ==
    /\ pos < Len(script)
    /\ Invoke(script[pos + 1])
    /\ pos' = pos + 1
    /\ first' = IF pos' = PassLen THEN st' ELSE first
    /\ UNCHANGED script

\* ----------------------------- SpecScenario: the five events, fed and then re-fed

\* start of a part: an instant, or absent.
StartOptions == {{}} \cup {{t} : t \in Times}

\* The five events of the scenario: user message u1, its text part "hi",
\* assistant message a1 with parent u1, its text part "hello", and a1 completed.
\* c gives the captured_at of each event, hi and hello the start of the two parts.
ScenarioScript(c, hi, hello) ==
    << MessageEvent("s1", c[1], Info("u1", "user", "", FALSE)),
       PartEvent("s1", c[2], [TextPart("p1", "u1", <<"hi">>) EXCEPT !.start = hi]),
       MessageEvent("s1", c[3], Info("a1", "assistant", "u1", FALSE)),
       PartEvent("s1", c[4], [TextPart("p2", "a1", <<"hello">>) EXCEPT !.start = hello]),
       MessageEvent("s1", c[5], Info("a1", "assistant", "u1", TRUE)) >>

\* The events are captured in the order they are fed: either none carries a
\* captured_at (each is stamped with the wall clock of its invocation), or all do
\* and the stamps do not decrease.
ScenarioStamps ==
    {[i \in 1..5 |-> {}]}
    \cup {c \in [1..5 -> Stamps] :
            \A i \in 1..4 : TheOne(c[i]) <= TheOne(c[i + 1])}

InitScenario ==
    /\ InitWith(MaxEvents)
    /\ \E c \in ScenarioStamps, hi \in StartOptions, hello \in StartOptions :
          script = Twice(ScenarioScript(c, hi, hello))
    /\ pos = 0
    /\ first = EmptyState
    /\ NoFleet
    /\ NoHost

NextScenario == Deliver

SpecScenario == InitScenario /\ [][NextScenario]_vars

\* C3: the five events, fed to an empty state, produce exactly one turn sink
\* call, made while the fifth event is handled, with input "hi" and output "hello".
C3_ScenarioEmitsOnce ==
    /\ pos < 5 => (sent = EmptyMap /\ calls = <<>>)
    /\ pos = 5 =>
         /\ sent = (A1Turn :> 1)
         /\ Len(calls) = 1
         /\ calls[1].session_id = "s1" /\ calls[1].message_id = "a1"
         /\ calls[1].input = <<"hi">>
         /\ calls[1].output = <<"hello">>

\* The fifth event has been handled and the turn of a1 is marked emitted.
C3_Witness ==
    /\ pos = 5 /\ PassLen = 5
    /\ A1Turn \in DOMAIN st.emitted
    /\ Len(calls) = 1 /\ calls[1].input = <<"hi">>

\* The maps of the state other than the event-history ring, the lifecycle
\* record and the insertion order of assistant_parts.
ReplayFrame(s) ==
    [messages              |-> s.messages,
     user_parts            |-> s.user_parts,
     assistant_parts       |-> s.assistant_parts,
     pending_parts         |-> s.pending_parts,
     assistant_finish_seen |-> s.assistant_finish_seen,
     message_last_seen     |-> s.message_last_seen,
     part_last_seen        |-> s.part_last_seen,
     emitted               |-> s.emitted]

\* C5: after the replay of a pass whose turns were emitted, the message records,
\* user_parts, assistant_parts, pending_parts, finish-seen flags, last-seen
\* values and emitted markers are what the first pass left.
C5_ReplayLeavesStateUnchanged ==
    (pos = Len(script) /\ first.assistant_parts = EmptyMap /\ first.emitted # EmptyMap)
        => ReplayFrame(st) = ReplayFrame(first)

\* ------------------------ SpecReplay: any short pass of events of one assistant turn

\* The first pass has at most MaxReplayLen events.
MaxReplayLen == 3

\* The events a pass is made of.
ReplayEvents ==
    {MessageEvent("s1", c, Info("a1", "assistant", "u1", done)) : c \in Stamps, done \in BOOLEAN}
    \cup {PartEvent("s1", c, TextPart("p2", "a1", <<"hello">>)) : c \in Stamps}
    \cup {PartEvent("s1", c, MarkerPart("p4", "a1", "step-finish")) : c \in Stamps}
    \cup {LifecycleEvent("session.idle", "s1", c) : c \in Stamps}

ReplayPasses == UNION {[1..n -> ReplayEvents] : n \in 1..MaxReplayLen}

InitReplay ==
    /\ InitWith(MaxEvents)
    /\ \E ps \in ReplayPasses : script = Twice(ps)
    /\ pos = 0
    /\ first = EmptyState
    /\ NoFleet
    /\ NoHost

NextReplay == Deliver

SpecReplay == InitReplay /\ [][NextReplay]_vars

\* The first pass is over and left no part buffered for an assistant turn.
SettledPass ==
    /\ pos >= PassLen
    /\ first.assistant_parts = EmptyMap
    /\ first.pending_parts = EmptyMap

MaxProcs == 2

Pids == 1..MaxProcs

\* The events the concurrent invocations handle; each is stamped with the wall
\* clock of its invocation.
LockEvents ==
    { MessageEvent("s1", {}, Info("u1", "user", "", FALSE)),
      PartEvent("s1", {}, TextPart("p1", "u1", <<"hi">>)),
      PartEvent("s1", {}, TextPart("p2", "a1", <<"hello">>)),
      MessageEvent("s1", {}, Info("a1", "assistant", "u1", TRUE)) }

\* A process about to enter _state_lock with the event e.
Started(e) == [pc |-> "lock", ev |-> e, state |-> EmptyState]

InitLock ==
    /\ InitWith(MaxEvents)
    /\ NoFeed
    /\ locking \in BOOLEAN
    /\ lock = NoHolder
    /\ procs \in [Pids -> {Started(e) : e \in LockEvents}]
    /\ NoHost

\* A process that enters the with block without taking the lock.
EnterUnlocked(p) ==
    /\ procs[p].pc = "lock"
    /\ procs' = [procs EXCEPT ![p].pc = "load"]
    /\ UNCHANGED <<st, sent, calls, last, clock, max_events, feedVars, hostVars, locking, lock>>

\* _state_lock, up to the yield: flock(LOCK_EX) blocks until no other process
\* holds the lock; without fcntl the block is entered with no lock.
Acquire(p) ==
    /\ procs[p].pc = "lock"
    /\ IF locking
       THEN lock = NoHolder /\ lock' = p
       ELSE lock' = lock
    /\ procs' = [procs EXCEPT ![p].pc = "load"]
    /\ UNCHANGED <<st, sent, calls, last, clock, max_events, feedVars, hostVars, locking>>

\* state = _load_state()
Load(p) ==
    /\ procs[p].pc = "load"
    /\ procs' = [procs EXCEPT ![p].pc = "handle", ![p].state = st]
    /\ UNCHANGED <<st, sent, calls, last, clock, max_events, feedVars, hostVars, locking, lock>>

\* The handlers and the flushes of main, on the loaded state; the sink calls are
\* made here, inside the with block.
Handled(p, r, rejected) ==
    /\ procs' = [procs EXCEPT ![p].pc = "save", ![p].state = r.st]
    /\ sent' = Count(sent, r.calls)
    /\ calls' = r.calls
    /\ last' = [event_name |-> procs[p].ev.type, session_id |-> SessionId(procs[p].ev),
                message_id |-> EventMessageId(procs[p].ev), role |-> procs[p].ev.info.role,
                part |-> procs[p].ev.part, rejected |-> rejected]

Handle(p) ==
    /\ procs[p].pc = "handle"
    /\ \E ok \in SinkOutcomes(Main(procs[p].state, procs[p].ev, clock, TRUE)) :
          Handled(p, Main(procs[p].state, procs[p].ev, clock, ok),
                  Rejected(procs[p].state, procs[p].ev, clock))
    /\ UNCHANGED <<st, clock, max_events, feedVars, hostVars, locking, lock>>

\* _save_state(state)
Save(p) ==
    /\ procs[p].pc = "save"
    /\ st' = procs[p].state
    /\ procs' = [procs EXCEPT ![p].pc = "unlock"]
    /\ UNCHANGED <<sent, calls, last, clock, max_events, feedVars, hostVars, locking, lock>>

\* _state_lock, after the yield: flock(LOCK_UN) when the lock was taken.
Release(p) ==
    /\ procs[p].pc = "unlock"
    /\ lock' = IF lock = p THEN NoHolder ELSE lock
    /\ procs' = [procs EXCEPT ![p].pc = "done"]
    /\ UNCHANGED <<st, sent, calls, last, clock, max_events, feedVars, hostVars, locking>>

NextLock ==
    \E p \in Pids : Acquire(p) \/ Load(p) \/ Handle(p) \/ Save(p) \/ Release(p)

SpecLock == InitLock /\ [][NextLock]_vars

\* The orders in which the processes can run one after another.
SerialOrders ==
    {o \in [Pids -> Pids] : \A p \in Pids, q \in Pids : o[p] = o[q] => p = q}

\* The state file after the invocations have run one after another in the order o,
\* the first k of them.
RECURSIVE SerialState(_, _)
SerialState(o, k) ==
    IF k = 0 THEN EmptyState
    ELSE Main(SerialState(o, k - 1), procs[o[k]].ev, clock, TRUE).st

\* The processes that have loaded the state and not yet saved it.
BetweenLoadAndSave == {p \in Pids : procs[p].pc \in {"handle", "save"}}

\* The processes inside the with block of main.
InsideBlock == {p \in Pids : procs[p].pc \in {"load", "handle", "save", "unlock"}}

AllDone == \A p \in Pids : procs[p].pc = "done"

\* C8: when file locking is available, a process inside the with block holds
\* the lock from before its load until after its save, at most one process is
\* between load and save, and the state file the concurrent invocations leave is
\* the one that running them one after another in some order leaves.
C8_LockSerialisesInvocations ==
    locking =>
        /\ \A p \in InsideBlock : lock = p
        /\ Cardinality(BetweenLoadAndSave) <= 1
        /\ AllDone => \E o \in SerialOrders : st = SerialState(o, MaxProcs)

\* With locking, two invocations for different events are done and the state
\* file holds the updates of both.
C8_Witness ==
    /\ locking /\ AllDone
    /\ procs[1].ev # procs[2].ev
    /\ \A p \in {1, 2} : st # Main(EmptyState, procs[p].ev, clock, TRUE).st
    /\ Get(sent, A1Turn, 0) = 1

\* ------------------------------ SpecFlush: buffered assistant parts and session events

\* properties.part of the part events: text (blank or not), reasoning and tool
\* parts of a1, a tool part of a2.
FlushParts ==
    {TextPart("p2", "a1", t) : t \in {<<"hello">>, <<" ">>}}
    \cup {ReasoningPart("p5", "a1", <<"why">>)}
    \cup {ToolPart("p3", "a1", x) : x \in {"running", "error"}}
    \cup {ToolPart("p3", "a2", "completed")}

\* No message.updated of a2 is ever received; the one of a1 is not completed.
FlushInfos == {Info("a1", "assistant", "", FALSE)}

AssistantIds == {"a1", "a2"}

InitFlush == InitWith(MaxEvents) /\ NoFeed /\ NoFleet /\ NoHost

FlushMessageUpdated ==
    \E info \in FlushInfos : Invoke(MessageEvent("s1", {}, info)) /\ UNCHANGED feedVars

FlushPartUpdated ==
    \E part \in FlushParts : Invoke(PartEvent("s1", {}, part)) /\ UNCHANGED feedVars

FlushSessionEvent ==
    \E type \in LifecycleEvents, c \in Stamps :
        Invoke(LifecycleEvent(type, "s1", c)) /\ UNCHANGED feedVars

NextFlush == FlushMessageUpdated \/ FlushPartUpdated \/ FlushSessionEvent

SpecFlush == InitFlush /\ [][NextFlush]_vars

\* The parts buffered for the message key, in assistant_parts or still pending.
BufferedParts(s, key) ==
    Update(Get(s.pending_parts, key, EmptyMap), Get(s.assistant_parts, key, EmptyMap))

\* Some part is a non-empty text, a reasoning or a tool call in a terminal status.
HasOutput(parts) ==
    \E i \in DOMAIN parts :
        \/ parts[i].type \in {"text", "reasoning"} /\ parts[i].text # <<>>
        \/ parts[i].type = "tool" /\ parts[i].status \in TerminalStatus

\* C9 as stated: an invocation for a terminal session event emits every
\* assistant message of the session that has buffered parts with non-empty text,
\* reasoning or a terminal tool call and is not yet emitted.
C9_TerminalEventFlushesBuffered ==
    [][last'.event_name \in TerminalEvents =>
          \A m \in AssistantIds :
              (/\ HasOutput(BufferedParts(st, MsgKey("s1", m)))
               /\ TurnKey("s1", m) \notin DOMAIN st.emitted)
              => /\ TurnKey("s1", m) \in DOMAIN st'.emitted
                 /\ \E i \in 1..Len(calls') : calls'[i].message_id = m]_vars

\* C9, amended: an invocation for a terminal session event that carries a
\* session id emits every message of the session whose parts buffered in
\* assistant_parts hold text that is not blank, reasoning or a terminal tool
\* call and that is not yet emitted, with or without a stored message record.
C9_TerminalEventFlushesAssistantParts ==
    [][last'.event_name \in TerminalEvents =>
          \A m \in AssistantIds :
              (/\ TurnReady(BuildTurnDetails(Get(st.assistant_parts, MsgKey("s1", m), EmptyMap), clock))
               /\ TurnKey("s1", m) \notin DOMAIN st.emitted)
              => /\ TurnKey("s1", m) \in DOMAIN st'.emitted
                 /\ \E i \in 1..Len(calls') : calls'[i].message_id = m]_vars

\* A terminal session event has emitted the turn of a2 from its tool call, with
\* no message record stored for a2.
C9_Witness ==
    /\ last.event_name \in TerminalEvents
    /\ \E i \in 1..Len(calls) : calls[i].message_id = "a2" /\ calls[i].tools # <<>>
    /\ MsgKey("s1", "a2") \notin DOMAIN st.messages
    /\ TurnKey("s1", "a2") \in DOMAIN st.emitted

\* ------------------------- SpecRole: a text part that arrives before the role is known

\* The message.updated events of the message m1: with role user, with role
\* assistant, or with no role.
RoleInfos == {Info("m1", role, "", FALSE) : role \in {"user", "assistant", ""}}

M1Key == MsgKey("s1", "m1")

\* The role stored for the key: "" when no record is stored or it has no role.
KnownRole(s, key) == Get(s.messages, key, NoInfo).role

InitRole == InitWith(MaxEvents) /\ NoFeed /\ NoFleet /\ NoHost

RoleMessageUpdated ==
    \E info \in RoleInfos, c \in Stamps :
        Invoke(MessageEvent("s1", c, info)) /\ UNCHANGED feedVars

\* The text part p1 of m1 arrives while the role of m1 is unknown.
RolePartUpdated ==
    /\ KnownRole(st, M1Key) = ""
    /\ \E c \in Stamps, t \in {<<"hi">>, <<"hi", " ", "there">>} :
          Invoke(PartEvent("s1", c, TextPart("p1", "m1", t))) /\ UNCHANGED feedVars

NextRole == RoleMessageUpdated \/ RolePartUpdated

SpecRole == InitRole /\ [][NextRole]_vars

GateParts ==
    {TextPart("p2", "a1", t) : t \in {<<>>, <<"hello">>}}
    \cup {ReasoningPart("p5", "a1", <<>>)}
    \cup {ToolPart("p3", "a1", x) : x \in {"running", "completed"}}
    \cup {MarkerPart("p4", "a1", "step-finish")}

\* properties.info of the message.updated events of a1.
GateInfos == {Info("a1", "assistant", "", c) : c \in BOOLEAN}

InitGate == InitWith(MaxEvents) /\ NoFeed /\ NoFleet /\ NoHost

GateMessageUpdated ==
    \E info \in GateInfos, c \in Stamps :
        Invoke(MessageEvent("s1", c, info)) /\ UNCHANGED feedVars

\* A part event carries no captured_at: it is stamped with the wall clock.
GatePartUpdated ==
    \E part \in GateParts :
        Invoke(PartEvent("s1", {}, part)) /\ UNCHANGED feedVars

GateSessionEvent ==
    \E c \in Stamps : Invoke(LifecycleEvent("session.idle", "s1", c)) /\ UNCHANGED feedVars

NextGate == GateMessageUpdated \/ GatePartUpdated \/ GateSessionEvent

SpecGate == InitGate /\ [][NextGate]_vars

\* The parts buffered for the message key once the invocation l has buffered the
\* part of its event: a part event that was not rejected adds or replaces its part.
PartsWithEvent(s, l, key) ==
    IF /\ l.event_name = "message.part.updated"
       /\ MsgKey(l.session_id, l.message_id) = key
       /\ ~l.rejected
    THEN Put(BufferedParts(s, key), l.part.id, l.part)
    ELSE BufferedParts(s, key)

\* C11: an invocation (completion event, part event or lifecycle flush) that
\* finds the buffered parts of a not yet emitted assistant message without
\* non-empty text, reasoning text and terminal tool call makes no sink call for
\* it, sets no emitted marker for it and keeps its buffered parts.
C11_EmptyTurnIsNeverEmitted ==
    [][\A m \in AssistantIds :
          (/\ TurnKey("s1", m) \notin DOMAIN st.emitted
           /\ ~HasOutput(PartsWithEvent(st, last', MsgKey("s1", m))))
          => /\ \A i \in 1..Len(calls') : calls'[i].message_id # m
             /\ TurnKey("s1", m) \notin DOMAIN st'.emitted
             /\ BufferedParts(st', MsgKey("s1", m)) = PartsWithEvent(st, last', MsgKey("s1", m))]_vars

\* a1 is marked completed and has seen its step-finish marker, its buffered parts
\* (an empty text, an empty reasoning, a running tool call) hold no content, a
\* session.idle has just run the lifecycle flush, and a1 is not emitted.
C11_Witness ==
    /\ last.event_name = "session.idle"
    /\ A1Key \in DOMAIN st.messages /\ st.messages[A1Key].completed
    /\ A1Key \in DOMAIN st.assistant_finish_seen
    /\ DOMAIN Get(st.assistant_parts, A1Key, EmptyMap) = {"p2", "p3", "p4", "p5"}
    /\ ~HasOutput(st.assistant_parts[A1Key])
    /\ A1Turn \notin DOMAIN st.emitted
    /\ sent = EmptyMap

\* ------------- SpecProcess: invocations step by step, with their environment and files

\* The number of invocations followed, one after another.
MaxRuns == 2

\* The strings int() accepts, among the values of the model.
Numerals == {"20000", "30"}

\* Lines 36-37: int(os.environ.get(name, default)), evaluated when the module is
\* loaded.  value is {} for an unset variable, which takes the default; a value
\* that is no numeral raises ValueError.
IntRaises(value) == value # {} /\ TheOne(value) \notin Numerals

\* str.lower() of a string given as its characters.
Lower(text) == [i \in DOMAIN text |-> IF text[i] = "T" THEN "t" ELSE text[i]]

\* A gate that is open unless TRACE_TO_LANGFUSE says false.
EnabledUnlessFalse(e) == Lower(Strip(e.TRACE_TO_LANGFUSE)) # <<"f", "a", "l", "s", "e">>

\* Line 803: os.environ.get("TRACE_TO_LANGFUSE", "").strip().lower() == "true".
TraceEnabled(e) == Lower(Strip(e.TRACE_TO_LANGFUSE)) = <<"t", "r", "u", "e">>

\* The environments: TRACE_TO_LANGFUSE unset, "True ", "false" or "1";
\* OPENCODE_LANGFUSE_MAX_CHARS unset, a numeral, or no numeral.
Environments ==
    [TRACE_TO_LANGFUSE : {<<>>, <<"T", "r", "u", "e", " ">>, <<"f", "a", "l", "s", "e">>, <<"1">>},
     MAX_CHARS         : {{}, {"30"}, {"abc"}}]

\* What stdin holds: nothing but whitespace, text that is no JSON, a JSON array,
\* or a JSON object with the events it wraps (none for {}).
Stdin(kind, events) == [kind |-> kind, events |-> events]

\* _read_payload: the parsed object, or {} for anything else.  A payload is the
\* set of events it holds, {} being the empty dict.
ReadPayload(stdin) == IF stdin.kind = "object" THEN stdin.events ELSE {}

\* The events of the invocations.
ProcessEvents ==
    { MessageEvent("s1", {}, Info("u1", "user", "", FALSE)),
      LifecycleEvent("session.idle", "s1", {}) }

Inputs ==
    {Stdin(k, {}) : k \in {"blank", "garbage", "array", "object"}}
    \cup {Stdin("object", {e}) : e \in ProcessEvents}

\* The content of a file: missing, text that does not parse as JSON ("garbage"),
\* the beginning of a JSON text being written ("partial"), a JSON array, or a
\* JSON object.  Of an object, maps holds the top-level maps, absent the keys it
\* lacks and wrong the keys whose value is not an object (null, a list, a string).
File(kind, maps, wrong, absent) == [kind |-> kind, maps |-> maps, wrong |-> wrong, absent |-> absent]

Missing == File("missing", EmptyState, {}, {})
Garbage == File("garbage", EmptyState, {}, {})
Array == File("array", EmptyState, {}, {})

\* What write_text has put in the file when it is stopped half way.
Partial(state) == File("partial", state.maps, state.wrong, {})

\* _load_state: the object the file holds, with {} for each key it lacks; a
\* fresh state when the file is missing, unreadable or no JSON object.  A loaded
\* state is its maps and the keys whose value is not a map.
LoadState(file) ==
    IF file.kind = "object"
    THEN [maps  |-> [k \in DOMAIN EmptyState |->
                        IF k \in file.absent THEN EmptyState[k] ELSE file.maps[k]],
          wrong |-> file.wrong]
    ELSE [maps |-> EmptyState, wrong |-> {}]

\* json.dumps(state), written whole.
DumpState(state) == File("object", state.maps, state.wrong, {})

\* A state file left by earlier invocations: a terminal tool call of a1 is buffered.
StoredState ==
    Main(EmptyState, PartEvent("s1", {}, ToolPart("p3", "a1", "completed")), MaxTime, TRUE).st

\* The state files the first invocation may find.
StateFiles ==
    { Missing, Garbage, Array,
      File("object", EmptyState, {}, {"messages", "emitted"}),
      File("object", EmptyState, {"messages"}, {}),
      File("object", EmptyState, {"message_last_seen"}, {}),
      File("object", StoredState, {}, {}) }

\* A save that writes the state file in place.
InPlace(path) == path

\* Line 218: STATE_FILE.with_suffix(".tmp").
WithSuffixTmp(path) == "tmp"

\* os.replace(src, dst)
Replace(d, src, dst) ==
    IF src = dst THEN d ELSE [d EXCEPT ![dst] = d[src], ![src] = Missing]

\* The top-level maps the handlers of ev replace by _as_dict of themselves
\* before use (lines 716-717, 762-763, 819-820).
Normalised(ev) ==
    {"session_lifecycle"}
    \cup (IF ev.type = "message.updated" /\ ev.info.id # ""
          THEN {"message_last_seen"} ELSE {})
    \cup (IF ev.type = "message.part.updated" /\ ev.part.messageID # "" /\ ev.part.id # ""
          THEN {"part_last_seen"} ELSE {})

\* The top-level maps the handlers of ev index as dicts without checking them:
\* message.updated that is not stale stores the record (line 722), reads the
\* marker of an assistant message (727), appends to the history (368) and pops
\* the pending parts (734); a flush that finds buffered assistant parts reads the
\* markers (686) and the buffers of the turn (614-618).
Indexed(s, ev, now) ==
    IF ev.type = "message.updated" /\ ev.info.id # "" /\ ~Rejected(s.maps, ev, now)
    THEN {"messages", "message_events", "pending_parts"}
         \cup (IF ev.info.role = "assistant" THEN {"emitted"} ELSE {})
    ELSE IF /\ ev.type \in TerminalEvents
            /\ "assistant_parts" \notin s.wrong
            /\ s.maps.assistant_parts # EmptyMap
    THEN {"emitted", "messages", "message_events", "user_parts"}
    ELSE {}

\* The handlers of ev raise on the loaded state s.
Raises(s, ev, now) == s.wrong \cap Indexed(s, ev, now) # {}

\* The n-th invocation, about to load the module: its stdin, the files it finds
\* and how the invocation before it ended.
Spawned(n, stdin, files, after) ==
    [n |-> n, pc |-> "import", stdin |-> stdin, before |-> files, after |-> after,
     state |-> LoadState(Missing), loaded |-> FALSE, raised |-> FALSE, status |-> 0]

processFrame == <<st, last, clock, max_events, feedVars, procs, locking, env>>

InitProcess ==
    /\ InitWith(MaxEvents)
    /\ NoFeed
    /\ procs = <<>>
    /\ lock = NoHolder
    /\ locking \in BOOLEAN
    /\ env \in Environments
    /\ disk \in {[state |-> f, tmp |-> Missing] : f \in StateFiles}
    /\ \E stdin \in Inputs : run = Spawned(1, stdin, disk, "none")

\* The process ends with the exit status.
Exit(status) == [run EXCEPT !.pc = "exit", !.status = status]

\* The module is loaded: lines 36-37 read the configured limits, outside any try.
ImportModule ==
    /\ run.pc = "import"
    /\ run' = IF IntRaises(env.MAX_CHARS) THEN Exit(1) ELSE [run EXCEPT !.pc = "main"]
    /\ UNCHANGED <<processFrame, sent, calls, lock, disk>>

\* Lines 801-804: main returns unless tracing is enabled.
CheckGate ==
    /\ run.pc = "main"
    /\ run' = IF TraceEnabled(env) THEN [run EXCEPT !.pc = "read"] ELSE Exit(0)
    /\ UNCHANGED <<processFrame, sent, calls, lock, disk>>

\* Lines 806-808: main returns on an empty payload.
ReadInput ==
    /\ run.pc = "read"
    /\ run' = IF ReadPayload(run.stdin) = {} THEN Exit(0) ELSE [run EXCEPT !.pc = "client"]
    /\ UNCHANGED <<processFrame, sent, calls, lock, disk>>

\* Lines 810-812: main returns when no client can be built (SDK or keys missing).
BuildClient ==
    /\ run.pc = "client"
    /\ \E built \in BOOLEAN :
          run' = IF built THEN [run EXCEPT !.pc = "lock"] ELSE Exit(0)
    /\ UNCHANGED <<processFrame, sent, calls, lock, disk>>

\* _state_lock up to the yield: the lock is taken when locking works, and the
\* block is entered in any case.
EnterLock ==
    /\ run.pc = "lock"
    /\ IF locking THEN lock = NoHolder /\ lock' = run.n ELSE lock' = lock
    /\ run' = [run EXCEPT !.pc = "load"]
    /\ UNCHANGED <<processFrame, sent, calls, disk>>

\* Line 818: state = _load_state().
ReadState ==
    /\ run.pc = "load"
    /\ run' = [run EXCEPT !.pc = "handle", !.state = LoadState(disk["state"]), !.loaded = TRUE]
    /\ UNCHANGED <<processFrame, sent, calls, lock, disk>>

\* The handlers returned r.
Processed(r, ev) ==
    /\ run' = [run EXCEPT !.pc = "save",
                          !.state = [maps |-> r.st, wrong |-> run.state.wrong \ Normalised(ev)]]
    /\ sent' = Count(sent, r.calls)
    /\ calls' = r.calls

\* Lines 819-845: the handlers and flushes on the loaded state.  An exception
\* leaves the with block, which releases the lock, and is caught at line 866.
HandleEvent ==
    /\ run.pc = "handle"
    /\ \E ev \in ReadPayload(run.stdin) :
          IF Raises(run.state, ev, clock)
          THEN /\ run' = [run EXCEPT !.pc = "unlock", !.raised = TRUE]
               /\ UNCHANGED <<sent, calls>>
          ELSE \E ok \in SinkOutcomes(Main(run.state.maps, ev, clock, TRUE)) :
                  Processed(Main(run.state.maps, ev, clock, ok), ev)
    /\ UNCHANGED <<processFrame, lock, disk>>

\* Line 219, write_text: the temporary file is opened, which empties it.  A
\* failure before that (line 217) is swallowed at line 221.
OpenTmp ==
    /\ run.pc = "save"
    /\ \E opened \in BOOLEAN :
          IF opened
          THEN /\ disk' = [disk EXCEPT ![WithSuffixTmp("state")] = Partial(run.state)]
               /\ run' = [run EXCEPT !.pc = "write"]
          ELSE /\ disk' = disk
               /\ run' = [run EXCEPT !.pc = "unlock"]
    /\ UNCHANGED <<processFrame, sent, calls, lock>>

\* Line 219: the text is written out; a failure half way is swallowed at line 221.
WriteTmp ==
    /\ run.pc = "write"
    /\ \E written \in BOOLEAN :
          IF written
          THEN /\ disk' = [disk EXCEPT ![WithSuffixTmp("state")] = DumpState(run.state)]
               /\ run' = [run EXCEPT !.pc = "replace"]
          ELSE /\ disk' = disk
               /\ run' = [run EXCEPT !.pc = "unlock"]
    /\ UNCHANGED <<processFrame, sent, calls, lock>>

\* Line 220: os.replace(tmp, STATE_FILE), one atomic step; a failure is swallowed.
ReplaceState ==
    /\ run.pc = "replace"
    /\ \E replaced \in BOOLEAN :
          disk' = IF replaced THEN Replace(disk, WithSuffixTmp("state"), "state") ELSE disk
    /\ run' = [run EXCEPT !.pc = "unlock"]
    /\ UNCHANGED <<processFrame, sent, calls, lock>>

\* _state_lock after the yield, and the end of the process: main returned, or
\* the exception was swallowed at lines 866-873.
LeaveLock ==
    /\ run.pc = "unlock"
    /\ lock' = NoHolder
    /\ run' = Exit(0)
    /\ UNCHANGED <<processFrame, sent, calls, disk>>

\* The process is killed inside the with block; its lock goes with it.
Crash ==
    /\ run.pc \in {"load", "handle", "save", "write", "replace", "unlock"}
    /\ run' = [run EXCEPT !.pc = "crashed"]
    /\ lock' = NoHolder
    /\ UNCHANGED <<processFrame, sent, calls, disk>>

\* The next invocation starts once the one before has ended.
NextInvocation ==
    /\ run.pc \in {"exit", "crashed"}
    /\ run.n < MaxRuns
    /\ \E stdin \in Inputs : run' = Spawned(run.n + 1, stdin, disk, run.pc)
    /\ calls' = <<>>
    /\ UNCHANGED <<processFrame, sent, lock, disk>>

NextProcess ==
    \/ ImportModule \/ CheckGate \/ ReadInput \/ BuildClient \/ EnterLock \/ ReadState
    \/ HandleEvent \/ OpenTmp \/ WriteTmp \/ ReplaceState \/ LeaveLock \/ Crash
    \/ NextInvocation

SpecProcess == InitProcess /\ [][NextProcess]_vars

\* ------------------------------------------------------ claims of SpecProcess

\* C13: every invocation that ends exits with status 0, whatever fails inside
\* it: a configuration value, the input, the persisted state, the lock, the sink
\* or the save.
C13_InvocationExitsSuccessfully == run.pc = "exit" => run.status = 0

\* C14: a load of a missing, unreadable or invalid state file yields a state
\* with every top-level map present as a map, fresh when the file holds no JSON
\* object, and the handlers that follow never raise on it.
C14_LoadedStateIsWellFormed ==
    run.loaded =>
        /\ run.state.wrong = {}
        /\ ~run.raised
        /\ (run.pc = "handle" /\ disk["state"].kind # "object") => run.state.maps = EmptyState

\* C15: at every point of an invocation, a crash in the middle of the write
\* included, the state file is whole: it holds what the invocation found, or,
\* once the save has renamed the temporary file, the state being saved.
C15_StateFileIsNeverPartial ==
    /\ disk["state"].kind # "partial"
    /\ \/ disk["state"] = run.before["state"]
       \/ /\ run.pc \in {"unlock", "exit", "crashed"}
          /\ disk["state"] = DumpState(run.state)

\* An invocation was killed in the middle of its write; the next one has loaded
\* the state file, which holds what the killed one had loaded, next to the
\* half-written temporary file.
C15_Witness ==
    /\ run.n = 2 /\ run.after = "crashed" /\ run.pc = "handle"
    /\ disk["tmp"].kind = "partial"
    /\ disk["tmp"].maps # disk["state"].maps
    /\ disk["state"] = File("object", StoredState, {}, {})
    /\ run.state = LoadState(disk["state"])

\* TRACE_TO_LANGFUSE is unset or set to something other than true, or stdin
\* holds no JSON object.
NoOpInvocation ==
    \/ env.TRACE_TO_LANGFUSE \in {<<>>, <<"f", "a", "l", "s", "e">>, <<"1">>}
    \/ run.stdin.kind \in {"blank", "garbage", "array"}

\* C16: an invocation whose tracing gate is not enabled, or whose input is empty,
\* unparseable or no JSON object, does not take the lock, does not load the
\* state, writes no file and makes no sink call.
C16_GatedInvocationIsNoOp ==
    NoOpInvocation =>
        /\ ~run.loaded
        /\ lock = NoHolder
        /\ disk = run.before
        /\ calls = <<>>

\* With tracing enabled, an invocation that emitted the turn of a1 and saved the
\* state is followed by one whose input is no JSON, which has exited without
\* loading the state.
C16_Witness ==
    /\ TraceEnabled(env)
    /\ run.n = 2 /\ run.pc = "exit" /\ run.stdin.kind = "garbage"
    /\ ~run.loaded
    /\ Get(sent, A1Turn, 0) = 1
    /\ disk["state"].kind = "object" /\ A1Turn \in DOMAIN disk["state"].maps.emitted

\* ------------------------------------------- claims of Spec: lifecycle and content

\* The parts buffered in assistant_parts for the message m of s1 form a turn the
\* emission gate lets through, and the turn is not marked emitted.
ReadyUnemitted(s, m) ==
    /\ TurnReady(BuildTurnDetails(Get(s.assistant_parts, MsgKey("s1", m), EmptyMap), clock))
    /\ TurnKey("s1", m) \notin DOMAIN s.emitted

\* C17: when an invocation has finished and the last lifecycle event recorded
\* for the session is terminal, no assistant message of the session is left with
\* a ready turn that is not emitted.
C17_NoReadyTurnAfterTerminalEvent ==
    ("s1" \in DOMAIN st.session_lifecycle /\ st.session_lifecycle["s1"].event \in TerminalEvents)
        => \A m \in MessageIds : ~ReadyUnemitted(st, m)

\* ---------------- SpecResponse: the parts of one assistant message and its completion

\* properties.part of the part events of a1: a text, a reasoning block, a
\* completed tool call and the step-finish marker.
ResponseParts ==
    { TextPart("p2", "a1", <<"hello">>),
      ReasoningPart("p5", "a1", <<"why">>),
      ToolPart("p3", "a1", "completed"),
      MarkerPart("p4", "a1", "step-finish") }

\* properties.info of the message.updated events of a1.
ResponseInfos == {Info("a1", "assistant", "", c) : c \in BOOLEAN}

InitResponse == InitWith(MaxEvents) /\ NoFeed /\ NoFleet /\ NoHost

ResponseMessageUpdated ==
    \E info \in ResponseInfos, c \in Stamps :
        Invoke(MessageEvent("s1", c, info)) /\ UNCHANGED feedVars

ResponsePartUpdated ==
    \E part \in ResponseParts, c \in Stamps :
        Invoke(PartEvent("s1", c, part)) /\ UNCHANGED feedVars

NextResponse == ResponseMessageUpdated \/ ResponsePartUpdated

SpecResponse == InitResponse /\ [][NextResponse]_vars

\* text occurs in the sequence of tokens output.
Occurs(text, output) ==
    \E k \in 0..(Len(output) - Len(text)) : SubSeq(output, k + 1, k + Len(text)) = text

\* The turn payload call carries the content of the part.
PayloadIncludes(call, part) ==
    \/ part.type = "text" /\ Occurs(part.text, call.output)
    \/ part.type = "reasoning" /\ \E k \in 1..Len(call.reasoning) : call.reasoning[k] = part.text
    \/ part.type = "tool" /\ \E k \in 1..Len(call.tools) : call.tools[k].id = part.id

\* C18: every non-empty text part, reasoning part and terminal tool part that
\* events deliver for the assistant message is in the one payload emitted for
\* it: after the invocation that receives such a part for the first time, the
\* part is buffered for the emission to come or is in the payload just emitted.
C18_PayloadHoldsFullResponse ==
    [][(/\ last'.event_name = "message.part.updated"
        /\ PartKey(A1Key, last'.part.id) \notin DOMAIN st.part_last_seen
        /\ HasOutput("p" :> last'.part))
       => \/ /\ last'.part.id \in DOMAIN BufferedParts(st', A1Key)
             /\ BufferedParts(st', A1Key)[last'.part.id] = last'.part
          \/ \E i \in 1..Len(calls') :
                calls'[i].message_id = "a1" /\ PayloadIncludes(calls'[i], last'.part)]_vars

\* ----------------------- SpecShared: two assistant messages with the same parent

\* The state file once the user message u1 and its text part "hi" have been
\* received.
SharedStart ==
    Main(Main(EmptyState, MessageEvent("s1", {}, Info("u1", "user", "", FALSE)), MaxTime, TRUE).st,
         PartEvent("s1", {}, TextPart("p1", "u1", <<"hi">>)), MaxTime, TRUE).st

\* properties.info of the message.updated events: a1 and a2 answer u1.
SharedInfos == {Info(m, "assistant", "u1", c) : m \in AssistantIds, c \in BOOLEAN}

\* properties.part of the part events: the text of a1 and the text of a2.
SharedParts == {TextPart("p2", "a1", <<"hello">>), TextPart("p3", "a2", <<"again">>)}

InitShared ==
    /\ max_events = MaxEvents
    /\ clock = MaxTime
    /\ st = SharedStart
    /\ sent = EmptyMap
    /\ calls = <<>>
    /\ last = NoLast
    /\ NoFeed /\ NoFleet /\ NoHost

SharedMessageUpdated ==
    \E info \in SharedInfos, c \in Stamps :
        Invoke(MessageEvent("s1", c, info)) /\ UNCHANGED feedVars

SharedPartUpdated ==
    \E part \in SharedParts, c \in Stamps :
        Invoke(PartEvent("s1", c, part)) /\ UNCHANGED feedVars

NextShared == SharedMessageUpdated \/ SharedPartUpdated

SpecShared == InitShared /\ [][NextShared]_vars

\* C19: every turn emitted for an assistant message whose parent id names the
\* user message u1 carries as input the text delivered for u1, for each of the
\* assistant messages that share the parent.
C19_InputIsParentText ==
    \A i \in 1..Len(calls) :
        calls[i].parent_message_id = "u1" => calls[i].input = <<"hi">>

\* ------------------------- SpecBucket: the parts of a user message and their buckets

\* properties.part of the part events of m1: its text and an agent part.
BucketParts == {TextPart("p1", "m1", <<"hi">>), MarkerPart("p4", "m1", "agent")}

\* The message.updated events of m1 all carry the role user.
BucketInfos == {Info("m1", "user", "", FALSE)}

InitBucket == InitWith(MaxEvents) /\ NoFeed /\ NoFleet /\ NoHost

BucketMessageUpdated ==
    \E info \in BucketInfos, c \in Stamps :
        Invoke(MessageEvent("s1", c, info)) /\ UNCHANGED feedVars

BucketPartUpdated ==
    \E part \in BucketParts, c \in Stamps :
        Invoke(PartEvent("s1", c, part)) /\ UNCHANGED feedVars

BucketSessionEvent ==
    \E type \in LifecycleEvents, c \in Stamps :
        Invoke(LifecycleEvent(type, "s1", c)) /\ UNCHANGED feedVars

NextBucket == BucketMessageUpdated \/ BucketPartUpdated \/ BucketSessionEvent

SpecBucket == InitBucket /\ [][NextBucket]_vars

\* The part ids held for the message key in the map bucket.
Held(bucket, key) == DOMAIN Get(bucket, key, EmptyMap)

\* C20: a part id of a message key is held in at most one of user_parts,
\* assistant_parts and pending_parts.
C20_PartIsInOneBucket ==
    \A m \in MessageIds :
        LET key == MsgKey("s1", m)
        IN  /\ Held(st.user_parts, key) \cap Held(st.assistant_parts, key) = {}
            /\ Held(st.user_parts, key) \cap Held(st.pending_parts, key) = {}
            /\ Held(st.assistant_parts, key) \cap Held(st.pending_parts, key) = {}

\* ------------------------------------------ claims of SpecProcess: the saved marker

\* C21: when an invocation that made a turn sink call has ended, by returning
\* or by being stopped, the state file holds the emitted marker of the turn, a
\* failing save included, and no turn is handed to the sink twice.
C21_SinkCallIsPersisted ==
    /\ (run.pc \in {"exit", "crashed"} /\ calls # <<>>) =>
          /\ disk["state"].kind = "object"
          /\ \A i \in 1..Len(calls) :
                TurnKey(calls[i].session_id, calls[i].message_id)
                    \in DOMAIN disk["state"].maps.emitted
    /\ \A t \in DOMAIN sent : sent[t] <= 1

\* ------------------- SpecMarker: one assistant message before and after its emission

\* The events of the message a1, handled at the instant the wall clock shows:
\* message.updated with role assistant, completed or not, or with role user;
\* its text part and the step-finish marker; session.idle.  The message.updated
\* events and the text part carry a captured_at that is not after the wall
\* clock; the other events carry none and are stamped with it.
MarkerEvents ==
    LET captured == {{t} : t \in 1..clock}
    IN  {MessageEvent("s1", c, info) :
            c \in captured,
            info \in {Info("a1", "assistant", "", FALSE), Info("a1", "assistant", "", TRUE),
                      Info("a1", "user", "", FALSE)}}
        \cup {PartEvent("s1", c, TextPart("p2", "a1", <<"hello">>)) : c \in captured}
        \cup {PartEvent("s1", {}, MarkerPart("p4", "a1", "step-finish"))}
        \cup {LifecycleEvent("session.idle", "s1", {})}

InitMarker ==
    /\ st = EmptyState
    /\ sent = EmptyMap
    /\ calls = <<>>
    /\ last = NoLast
    /\ clock = 1
    /\ max_events = MaxEvents
    /\ NoFeed /\ NoFleet /\ NoHost

\* One invocation for an event of a1.
MarkerEvent == \E e \in MarkerEvents : Invoke(e) /\ UNCHANGED feedVars

\* Time passes between two invocations.
Tick ==
    /\ clock < MaxTime
    /\ clock' = clock + 1
    /\ UNCHANGED <<st, sent, calls, last, max_events, feedVars, fleetVars, hostVars>>

NextMarker == MarkerEvent \/ Tick

SpecMarker == InitMarker /\ [][NextMarker]_vars

\* C22: an assistant message whose turn id has an emitted marker has no entry in
\* assistant_parts and no assistant_finish_seen flag, whatever message.updated,
\* message.part.updated and session events follow its emission.
C22_EmittedMessageIsNotRebuffered ==
    \A m \in MessageIds :
        TurnKey("s1", m) \in DOMAIN st.emitted
            => /\ MsgKey("s1", m) \notin DOMAIN st.assistant_parts
               /\ MsgKey("s1", m) \notin DOMAIN st.assistant_finish_seen

\* The turn of a1 was emitted at instant 1, and at instant 2 a step-finish part of
\* a1 has been accepted and has made no sink call.
C22_Witness ==
    /\ A1Turn \in DOMAIN st.emitted /\ st.emitted[A1Turn] = IsoFormat(1)
    /\ clock = 2
    /\ last.event_name = "message.part.updated" /\ last.part.type = "step-finish"
    /\ ~last.rejected
    /\ PartKey(A1Key, "p4") \in DOMAIN st.part_last_seen
    /\ ParseDt(st.part_last_seen[PartKey(A1Key, "p4")]) = 2
    /\ calls = <<>>

\* ------------------------------------------ claims of SpecGate: the pending parts

\* C23: once the turn of an assistant message is marked emitted, pending_parts
\* holds no entry for the key of the message.
C23_EmittedMessageHasNoPendingPart ==
    \A m \in MessageIds :
        TurnKey("s1", m) \in DOMAIN st.emitted => MsgKey("s1", m) \notin DOMAIN st.pending_parts

\* C24: an emitted marker, once set, is in every later state with the emission
\* timestamp it was set with.
C24_MarkerIsNeverRemoved ==
    [][\A t \in DOMAIN st.emitted :
          t \in DOMAIN st'.emitted /\ st'.emitted[t] = st.emitted[t]]_vars

\* The turn of a1 was emitted at instant 1; at instant 2 a completed
\* message.updated of a1 has been accepted, and the marker still carries instant 1.
C24_Witness ==
    /\ A1Turn \in DOMAIN st.emitted /\ ParseDt(st.emitted[A1Turn]) = 1
    /\ clock = 2
    /\ last.event_name = "message.updated" /\ last.role = "assistant" /\ ~last.rejected
    /\ st.messages[A1Key].completed
    /\ ParseDt(st.message_last_seen[A1Key]) = 2
    /\ Get(sent, A1Turn, 0) = 1

\* The last-seen map after an invocation for an event of the key k captured at
\* dt, against the map before it: no stored value has decreased, and when dt is
\* not older than the value that was stored for k, the value stored for k is dt.
LastSeenKept(before, after, k, dt) ==
    /\ \A x \in DOMAIN before :
          x \in DOMAIN after /\ ParseDt(after[x]) >= ParseDt(before[x])
    /\ (k \notin DOMAIN before \/ dt >= ParseDt(before[k]))
          => (k \in DOMAIN after /\ ParseDt(after[k]) = dt)

\* The state s2 an invocation for the event e leaves, from the state s at the
\* instant now: both last-seen maps are kept; an event leaves the map of the
\* other family as it was.
LastSeenAfter(s, s2, e, now) ==
    LET key == MsgKey(SessionId(e), EventMessageId(e))
        dt  == EventCapturedAt(e, now)
    IN  IF e.type = "message.updated"
        THEN /\ LastSeenKept(s.message_last_seen, s2.message_last_seen, key, dt)
             /\ s2.part_last_seen = s.part_last_seen
        ELSE IF e.type = "message.part.updated"
        THEN /\ LastSeenKept(s.part_last_seen, s2.part_last_seen, PartKey(key, e.part.id), dt)
             /\ s2.message_last_seen = s.message_last_seen
        ELSE /\ s2.message_last_seen = s.message_last_seen
             /\ s2.part_last_seen = s.part_last_seen

\* C25: over any sequence of events, the last-seen timestamp stored for a
\* message key or a (message, part) key never decreases, and after an accepted
\* event of the key it is the captured timestamp of that event.
C25_LastSeenNeverDecreases ==
    \A e \in MarkerEvents : LastSeenAfter(st, Main(st, e, clock, TRUE).st, e, clock)

\* An event of the text part p2 captured at instant 1 has been rejected: the
\* last-seen value of the part is 2, and so is that of the message.
C25_Witness ==
    /\ last.event_name = "message.part.updated" /\ last.part.id = "p2" /\ last.rejected
    /\ ParseDt(st.part_last_seen[PartKey(A1Key, "p2")]) = 2
    /\ A1Key \in DOMAIN st.message_last_seen
    /\ ParseDt(st.message_last_seen[A1Key]) = 2

\* ----------------------- SpecRing: the event history of one message and its maximum

\* The message.updated events of the user message u1, told apart by their
\* completed flag; each is stamped with the wall clock and so is accepted.
RingEvents == {MessageEvent("s1", {}, Info("u1", "user", "", done)) : done \in BOOLEAN}

\* OPENCODE_LANGFUSE_MAX_MESSAGE_EVENTS_PER_MESSAGE is set to 0 or more (line 37),
\* and up to MaxReplayLen events are fed.
InitRing ==
    /\ st = EmptyState
    /\ sent = EmptyMap
    /\ calls = <<>>
    /\ last = NoLast
    /\ clock = MaxTime
    /\ max_events \in 0..(MaxEvents + 1)
    /\ script \in UNION {[1..n -> RingEvents] : n \in 1..MaxReplayLen}
    /\ pos = 0
    /\ first = EmptyState
    /\ NoFleet
    /\ NoHost

NextRing == Deliver

SpecRing == InitRing /\ [][NextRing]_vars

\* C26: for every configured maximum N >= 0, after the events fed so far (all
\* accepted) the history kept for the message holds at most N entries: the last
\* ones appended, in arrival order.
C26_HistoryHoldsLastEntries ==
    LET history == Get(st.message_events, U1Key, <<>>)
        n       == IF max_events < pos THEN max_events ELSE pos
    IN  /\ Len(history) = n
        /\ \A i \in 1..n : history[i].info = script[pos - n + i].info

\* ------------------------------- SpecTools: the tool calls of one assistant message

\* The events of the message a1: its tool parts p3, p4 and p5 in any status and
\* with any start instant, message.updated completed or not, and session.idle.
\* Each is stamped with the wall clock.
ToolsEvents ==
    {PartEvent("s1", {}, [ToolPart(id, "a1", status) EXCEPT !.start = start]) :
        id \in {"p3", "p4", "p5"}, status \in {"running", "completed", "error"},
        start \in Stamps}
    \cup {MessageEvent("s1", {}, Info("a1", "assistant", "", done)) : done \in BOOLEAN}
    \cup {LifecycleEvent("session.idle", "s1", {})}

\* One invocation for an event of a1.
ToolsEvent == \E e \in ToolsEvents : Invoke(e) /\ UNCHANGED feedVars

NextTools == ToolsEvent

SpecTools == Init /\ [][NextTools]_vars

\* The tool list of a payload, against the parts buffered when it was built:
\* each listed tool is a buffered tool part in status completed or error, with
\* its start instant, and the list is in the order of (start instant, part id).
ToolsListed(tools, parts) ==
    /\ \A k \in 1..Len(tools) :
          /\ tools[k].status \in {"completed", "error"}
          /\ tools[k].id \in DOMAIN parts
          /\ parts[tools[k].id].type = "tool"
          /\ parts[tools[k].id].status = tools[k].status
          /\ parts[tools[k].id].start = {tools[k].ts}
    /\ \A k \in 1..(Len(tools) - 1) :
          \/ tools[k].ts < tools[k + 1].ts
          \/ tools[k].ts = tools[k + 1].ts /\ IdRank(tools[k].id) < IdRank(tools[k + 1].id)

\* Every part is a tool call that has not ended.
OnlyRunningTools(parts) ==
    /\ parts # EmptyMap
    /\ \A id \in DOMAIN parts :
          parts[id].type = "tool" /\ parts[id].status \notin {"completed", "error"}

\* C27: the tool list of an emitted turn holds only tool parts in status
\* completed or error, ordered by (start timestamp, part id); an assistant
\* message whose buffered parts are all tool calls in a non-terminal status is
\* not emitted.
C27_ToolsAreTerminalAndOrdered ==
    [][/\ \A i \in 1..Len(calls') :
             ToolsListed(calls'[i].tools, PartsWithEvent(st, last', A1Key))
       /\ (A1Turn \notin DOMAIN st.emitted /\ OnlyRunningTools(PartsWithEvent(st, last', A1Key)))
             => (calls' = <<>> /\ A1Turn \notin DOMAIN st'.emitted)]_vars

\* The turn of a1 has been emitted with two tool calls, p5 (started at 1) before
\* p3 (started at 2), while a third tool call was buffered and is not listed.
C27_Witness ==
    /\ Len(calls) = 1 /\ Len(calls[1].tools) = 2
    /\ calls[1].tools[1].id = "p5" /\ calls[1].tools[1].ts = 1
    /\ calls[1].tools[2].id = "p3" /\ calls[1].tools[2].ts = 2
    /\ PartKey(A1Key, "p4") \in DOMAIN st.part_last_seen
    /\ A1Turn \in DOMAIN st.emitted

====
